---------------------------- MODULE Spec2Model ----------------------------
(***************************************************************************)
(* Model of src/data_quality_reconciliation.py: a batch script that turns  *)
(* raw CSV rows into transactions, derives the master records from them,   *)
(* audits nulls and duplicates, evaluates the rules R003, R004 and R005    *)
(* and left-joins the transactions against the master records.             *)
(*                                                                         *)
(* The script is one straight-line run.  Its numbered steps are the        *)
(* actions; pc is the step the run is at.  The passthrough columns         *)
(* invoice, stockcode, description, country and txn_date are copied into   *)
(* the transactions and read by no later step; the model leaves them out   *)
(* of the frames (the raw invoice is read once, to build txn_id).          *)
(***************************************************************************)
EXTENDS Integers, Sequences, FiniteSets

VARIABLES pc, raw, transactions, master, dq_report, dup_master, dup_txn,
          exceptions, reconciled

vars == <<pc, raw, transactions, master, dq_report, dup_master, dup_txn,
          exceptions, reconciled>>

\* Largest number of rows of the input file.
MaxRows == 3

(***************************************************************************)
(* Values.  A CSV cell is a number or a text that is no number; a customer *)
(* cell may also be empty.  Numbers are held in tenths where a fraction    *)
(* matters (the customer column is float64 as soon as one cell is empty).  *)
(***************************************************************************)
NumCell(v)  == [kind |-> "num",  v |-> v]
TextCell    == [kind |-> "text", v |-> 0]
NullCell    == [kind |-> "null", v |-> 0]

\* None / NaN in an object column (customer_id, customer_name, ...): no
\* string the script builds with str(int(x)) or an f-string equals it.
None == "<NA>"

\* A float64 cell: NaN, or a number.
NaN     == [nan |-> TRUE,  v |-> 0]
Num(v)  == [nan |-> FALSE, v |-> v]

Invoices      == {"A1", "B2"}
Quantities    == {NumCell(-1), NumCell(0), NumCell(2), TextCell}
Prices        == {NumCell(5)}
\* customer id cells: empty, 7.0, 12.5 (in tenths) and an alphanumeric id
CustomerCells == {NullCell, NumCell(70), NumCell(125), TextCell}

\* The input rows.  STEP 1 ends on a text customer id whatever the rest of
\* the row holds, so one row stands for all the rows with such an id.
RawRows ==
    {r \in [invoice : Invoices, quantity : Quantities, price : Prices,
            customer : CustomerCells] :
        r.customer = TextCell =>
            r.invoice = "A1" /\ r.quantity = NumCell(2)}

RECURSIVE FilterFrom(_, _, _)
\* The rows i, i + 1, ... of df whose mask entry is true, in that order.
FilterFrom(df, mask, i) ==
    IF i > Len(df) THEN <<>>
    ELSE (IF mask[i] THEN <<df[i]>> ELSE <<>>) \o FilterFrom(df, mask, i + 1)

\* df[mask]: the rows whose mask entry is true, in the frame's order.
Filter(df, mask) == FilterFrom(df, mask, 1)

(***************************************************************************)
(* STEP 1: the transactions.                                               *)
(***************************************************************************)
\* pd.to_numeric(cell, errors='coerce')
ToNumeric(cell) == IF cell.kind = "num" THEN Num(cell.v) ELSE NaN

\* float multiplication: NaN if either factor is NaN
Mul(a, b) == IF a.nan \/ b.nan THEN NaN ELSE Num(a.v * b.v)

\* float comparison with 0: false on NaN
LtZero(a) == ~a.nan /\ a.v < 0

Digit(d) == CASE d = 0 -> "0" [] d = 1 -> "1" [] d = 2 -> "2" [] d = 3 -> "3"
              [] d = 4 -> "4" [] d = 5 -> "5" [] d = 6 -> "6" [] d = 7 -> "7"
              [] d = 8 -> "8" [] d = 9 -> "9"

RECURSIVE Str(_)
\* str(n) of an integer n: its decimal digits
Str(n) == IF n < 0 THEN "-" \o Str(-n)
          ELSE IF n < 10 THEN Digit(n)
          ELSE Str(n \div 10) \o Digit(n % 10)

\* int(x) of a float held in tenths: truncation toward zero
IntOfTenths(t) == IF t >= 0 THEN t \div 10 ELSE -((-t) \div 10)

\* int(x) raises ValueError on a text that is no integer literal
IntRaises(cell) == cell.kind = "text"

\* lambda x: str(int(x)) if pd.notnull(x) else None
NormalizeCustomer(cell) ==
    IF cell.kind = "null" THEN None ELSE Str(IntOfTenths(cell.v))

\* Mutant of TxnId: the row index is left out of the identifier.
TxnIdInvoiceOnly(invoice, index) == invoice

\* df['invoice'].astype(str) + "-" + df['index'].astype(str)
TxnId(invoice, index) == invoice \o "-" \o Str(index)

\* the transactions frame; reset_index numbers the rows 0, 1, ...
Transactions(rows) ==
    [i \in 1..Len(rows) |->
        [txn_id      |-> TxnId(rows[i].invoice, i - 1),
         customer_id |-> NormalizeCustomer(rows[i].customer),
         amount      |-> Mul(ToNumeric(rows[i].quantity),
                             ToNumeric(rows[i].price))]]

(***************************************************************************)
(* STEP 2: the master records.                                             *)
(***************************************************************************)
\* Mutant of DropNa: the null customer ids stay.
DropNaKeepsNull(ids) == ids

\* .dropna(): the rows whose customer_id is not null
DropNa(ids) == Filter(ids, [i \in 1..Len(ids) |-> ids[i] # None])

\* Mutant of DropDuplicates: keep='last', of equal values the last stays.
DropDuplicatesKeepLast(ids) ==
    Filter(ids, [i \in 1..Len(ids) |->
        \A j \in (i + 1)..Len(ids) : ids[j] # ids[i]])

\* Mutant of DropDuplicates: keep=False, every repeated value goes.
DropDuplicatesKeepNone(ids) ==
    Filter(ids, [i \in 1..Len(ids) |->
        \A j \in 1..Len(ids) : j = i \/ ids[j] # ids[i]])

\* .drop_duplicates(): of equal values the first stays
DropDuplicates(ids) ==
    Filter(ids, [i \in 1..Len(ids) |-> \A j \in 1..(i - 1) : ids[j] # ids[i]])

\* transactions[['customer_id']]
CustomerIds(txns) == [i \in 1..Len(txns) |-> txns[i].customer_id]

\* Mutant of MasterIds: drop_duplicates() is left out.
MasterIdsNoDedup(txns) == DropNa(CustomerIds(txns))

\* transactions[['customer_id']].dropna().drop_duplicates().reset_index(drop=True)
MasterIds(txns) == DropDuplicates(DropNa(CustomerIds(txns)))

\* one master row: customer_name is f"cust_{x}", account_status "ACTIVE"
MasterRow(id) ==
    [customer_id    |-> id,
     customer_name  |-> "cust_" \o id,
     account_status |-> "ACTIVE"]

\* the two derived columns added to the frame of customer ids
MasterRows(ids) == [k \in 1..Len(ids) |-> MasterRow(ids[k])]

\* the master frame
Master(txns) == MasterRows(MasterIds(txns))

(***************************************************************************)
(* STEP 3: the rule definitions (rules_df).                                *)
(***************************************************************************)
rules_df ==
    << [rule_id |-> "R003", description |-> "Customer not found in master",
        severity |-> "blocking"],
       [rule_id |-> "R004", description |-> "Negative transaction amount",
        severity |-> "high"],
       [rule_id |-> "R005", description |-> "Unmatched transaction record",
        severity |-> "high"] >>

(***************************************************************************)
(* STEP 4: the data quality checks.                                        *)
(***************************************************************************)
Count(S) == Cardinality(S)

\* check_nulls(master, 'master_records')
CheckNullsMaster(m) ==
    << [column |-> "customer_id", table |-> "master_records",
        null_count |-> Count({i \in 1..Len(m) : m[i].customer_id = None})],
       [column |-> "customer_name", table |-> "master_records",
        null_count |-> Count({i \in 1..Len(m) : m[i].customer_name = None})],
       [column |-> "account_status", table |-> "master_records",
        null_count |-> Count({i \in 1..Len(m) : m[i].account_status = None})] >>

\* check_nulls(transactions, 'transactions')
CheckNullsTransactions(txns) ==
    << [column |-> "txn_id", table |-> "transactions",
        null_count |-> Count({i \in 1..Len(txns) : txns[i].txn_id = None})],
       [column |-> "customer_id", table |-> "transactions",
        null_count |-> Count({i \in 1..Len(txns) : txns[i].customer_id = None})],
       [column |-> "amount", table |-> "transactions",
        null_count |-> Count({i \in 1..Len(txns) : txns[i].amount.nan})] >>

\* master[master.duplicated(subset=['customer_id'], keep=False)]
DupMaster(m) ==
    Filter(m, [i \in 1..Len(m) |->
        \E j \in 1..Len(m) : j # i /\ m[j].customer_id = m[i].customer_id])

\* transactions[transactions.duplicated(subset=['txn_id'], keep=False)]
DupTxn(txns) ==
    Filter(txns, [i \in 1..Len(txns) |->
        \E j \in 1..Len(txns) : j # i /\ txns[j].txn_id = txns[i].txn_id])

(***************************************************************************)
(* STEP 5: the rules R003 and R004.                                        *)
(***************************************************************************)
\* the dict one loop body appends
ExceptionRow(rule_id, description, row, severity) ==
    [rule_id     |-> rule_id,
     description |-> description,
     txn_id      |-> row.txn_id,
     customer_id |-> row.customer_id,
     severity    |-> severity]

\* transactions[notna(customer_id) & ~customer_id.isin(master.customer_id)]
UnknownCustomers(txns, m) ==
    Filter(txns, [i \in 1..Len(txns) |->
        /\ txns[i].customer_id # None
        /\ ~(\E k \in 1..Len(m) : m[k].customer_id = txns[i].customer_id)])

\* Mutant of NegativeTxns: amount <= 0 instead of amount < 0.
NonPositiveTxns(txns) ==
    Filter(txns, [i \in 1..Len(txns) |->
        ~txns[i].amount.nan /\ txns[i].amount.v <= 0])

\* transactions[transactions['amount'] < 0]
NegativeTxns(txns) ==
    Filter(txns, [i \in 1..Len(txns) |-> LtZero(txns[i].amount)])

\* the dicts one loop appends, in iterrows order
ExceptionRows(rule_id, description, rows, severity) ==
    [k \in 1..Len(rows) |->
        ExceptionRow(rule_id, description, rows[k], severity)]

\* the R003 loop's appends
R003Exceptions(txns, m) ==
    ExceptionRows("R003", "Customer not found in master",
                  UnknownCustomers(txns, m), "blocking")

\* the R004 loop's appends
R004Exceptions(txns) ==
    ExceptionRows("R004",
                  "Negative transaction amount (return or cancellation)",
                  NegativeTxns(txns), "high")

\* Mutant of AppendAll: insert(0, ...) keeps the loop's rows in front.
PrependAll(excs, new) == new \o excs

\* exceptions.append(...) for each row of a loop: at the end of the list
AppendAll(excs, new) == excs \o new

(***************************************************************************)
(* STEP 6: the reconciliation and rule R005.                               *)
(***************************************************************************)
\* a merged row: the left row, the right columns and the indicator
MergedRow(t, customer_name, account_status, merge) ==
    [txn_id |-> t.txn_id, customer_id |-> t.customer_id,
     amount |-> t.amount,
     customer_name |-> customer_name, account_status |-> account_status,
     merge |-> merge]

\* the left row joined to each of its right rows, in the right frame's
\* order, or alone with null right columns
JoinHits(t, hits) ==
    IF Len(hits) = 0
    THEN << MergedRow(t, None, None, "left_only") >>
    ELSE [k \in 1..Len(hits) |->
            MergedRow(t, hits[k].customer_name, hits[k].account_status,
                      "both")]

\* The rows a left merge yields for one left row: its right rows are those
\* with an equal key (pandas joins null keys to null keys).
MergeRow(t, m) ==
    JoinHits(t, Filter(m, [k \in 1..Len(m) |->
                              m[k].customer_id = t.customer_id]))

RECURSIVE MergeFrom(_, _, _)
MergeFrom(txns, m, i) ==
    IF i > Len(txns) THEN <<>>
    ELSE MergeRow(txns[i], m) \o MergeFrom(txns, m, i + 1)

\* transactions.merge(master, on='customer_id', how='left', indicator=True)
Merge(txns, m) == MergeFrom(txns, m, 1)

\* reconciled['_merge'].map({'both': 'MATCHED', 'left_only': 'UNMATCHED'}):
\* a value the dict lacks maps to NaN
MatchStatus(merge) ==
    CASE merge = "both"      -> "MATCHED"
      [] merge = "left_only" -> "UNMATCHED"
      [] OTHER               -> None

\* a merged row with match_status added and _merge dropped
WithMatchStatus(r) ==
    [txn_id |-> r.txn_id, customer_id |-> r.customer_id,
     amount |-> r.amount,
     customer_name |-> r.customer_name,
     account_status |-> r.account_status,
     match_status |-> MatchStatus(r.merge)]

\* the column match_status computed over a merged frame
MapMatchStatus(j) == [k \in 1..Len(j) |-> WithMatchStatus(j[k])]

\* the reconciled frame
Reconcile(txns, m) == MapMatchStatus(Merge(txns, m))

\* Mutant of UnmatchedRows: a row that already has its R004 exception is
\* skipped.
UnmatchedNotNegative(rec) ==
    Filter(rec, [k \in 1..Len(rec) |->
        rec[k].match_status = "UNMATCHED" /\ ~LtZero(rec[k].amount)])

\* reconciled[reconciled['match_status'] == 'UNMATCHED']
UnmatchedRows(rec) ==
    Filter(rec, [k \in 1..Len(rec) |-> rec[k].match_status = "UNMATCHED"])

\* Mutant of R005Exceptions: the severity of the R003 block is copied.
R005ExceptionsBlocking(rec) ==
    ExceptionRows("R005", "Unmatched transaction record",
                  UnmatchedRows(rec), "blocking")

\* the R005 loop's appends
R005Exceptions(rec) ==
    ExceptionRows("R005", "Unmatched transaction record",
                  UnmatchedRows(rec), "high")

Init ==
    /\ pc = "load"
    /\ raw = <<>>
    /\ transactions = <<>>
    /\ master = <<>>
    /\ dq_report = <<>>
    /\ dup_master = <<>>
    /\ dup_txn = <<>>
    /\ exceptions = <<>>
    /\ reconciled = <<>>

\* STEP 0: read_csv reads one more row of the file.
LoadRow ==
    /\ pc = "load"
    /\ Len(raw) < MaxRows
    /\ \E r \in RawRows : raw' = Append(raw, r)
    /\ UNCHANGED <<pc, transactions, master, dq_report, dup_master, dup_txn,
                   exceptions, reconciled>>

\* STEP 1 on a file whose customer ids all convert.
Step1 ==
    /\ pc = "load"
    /\ \A i \in 1..Len(raw) : ~IntRaises(raw[i].customer)
    /\ transactions' = Transactions(raw)
    /\ pc' = "step2"
    /\ UNCHANGED <<raw, master, dq_report, dup_master, dup_txn, exceptions,
                   reconciled>>

\* STEP 1 on a file with a customer id int() rejects: the uncaught
\* ValueError ends the script before anything is written.
Step1Raises ==
    /\ pc = "load"
    /\ \E i \in 1..Len(raw) : IntRaises(raw[i].customer)
    /\ pc' = "crashed"
    /\ UNCHANGED <<raw, transactions, master, dq_report, dup_master, dup_txn,
                   exceptions, reconciled>>

\* STEP 2: derive the master records from the transactions.
Step2 ==
    /\ pc = "step2"
    /\ master' = Master(transactions)
    /\ pc' = "step4"
    /\ UNCHANGED <<raw, transactions, dq_report, dup_master, dup_txn,
                   exceptions, reconciled>>

\* STEP 4: null counts of both frames and the duplicate diagnostics.
\* (STEP 3 writes the constant rules_df and changes no state.)
Step4 ==
    /\ pc = "step4"
    /\ dq_report' = CheckNullsMaster(master) \o
                    CheckNullsTransactions(transactions)
    /\ dup_master' = DupMaster(master)
    /\ dup_txn' = DupTxn(transactions)
    /\ pc' = "step5"
    /\ UNCHANGED <<raw, transactions, master, exceptions, reconciled>>

\* STEP 5: exceptions = [], then the R003 loop, then the R004 loop.
Step5 ==
    /\ pc = "step5"
    /\ exceptions' = AppendAll(AppendAll(<<>>,
                                   R003Exceptions(transactions, master)),
                               R004Exceptions(transactions))
    /\ pc' = "step6"
    /\ UNCHANGED <<raw, transactions, master, dq_report, dup_master, dup_txn,
                   reconciled>>

\* STEP 6: the left merge, match_status, then the R005 loop.
Step6 ==
    /\ pc = "step6"
    /\ reconciled' = Reconcile(transactions, master)
    /\ exceptions' = AppendAll(exceptions, R005Exceptions(reconciled'))
    /\ pc' = "done"
    /\ UNCHANGED <<raw, transactions, master, dq_report, dup_master, dup_txn>>

Next == LoadRow \/ Step1 \/ Step1Raises \/ Step2 \/ Step4 \/ Step5 \/ Step6

Spec == Init /\ [][Next]_vars

(***************************************************************************)
(* Properties.                                                             *)
(***************************************************************************)
\* the run is past STEP 1 (the transactions exist)
Normalized == pc \in {"step2", "step4", "step5", "step6", "done"}

\* the run is past STEP 2 (the master records exist)
MasterDerived == pc \in {"step4", "step5", "step6", "done"}

\* the run is past STEP 5 (R003 and R004 are evaluated)
RulesEvaluated == pc \in {"step6", "done"}

\* how many exceptions of a rule name a txn_id
ExcCount(rule, id) ==
    Cardinality({e \in 1..Len(exceptions) :
        exceptions[e].rule_id = rule /\ exceptions[e].txn_id = id})

\* the txn_ids of the transactions
TxnIds == {transactions[i].txn_id : i \in 1..Len(transactions)}

\* amount < 0, read off the raw cells of input row i
RawNegative(i) ==
    /\ raw[i].quantity.kind = "num"
    /\ raw[i].price.kind = "num"
    /\ raw[i].quantity.v * raw[i].price.v < 0

\* the amount of input row i is missing
RawMissing(i) == raw[i].quantity.kind # "num" \/ raw[i].price.kind # "num"

\* the input row a txn_id belongs to
RowOf(id) == CHOOSE i \in 1..Len(transactions) : transactions[i].txn_id = id

\* the place of a rule in the evaluation order
RuleRank(rule) == CASE rule = "R003" -> 1 [] rule = "R004" -> 2
                    [] rule = "R005" -> 3 [] OTHER -> 0

\* the first input row with a customer id
FirstSeen(c) ==
    CHOOSE i \in 1..Len(transactions) :
        /\ transactions[i].customer_id = c
        /\ \A j \in 1..(i - 1) : transactions[j].customer_id # c

\* C1: the reconciliation result holds exactly one row per transaction: the
\* same length, every txn_id exactly once, in input row order.
C1_OneRowPerTransaction ==
    pc = "done" =>
        /\ Len(reconciled) = Len(transactions)
        /\ \A i \in 1..Len(transactions) :
              /\ i <= Len(reconciled)
              /\ reconciled[i].txn_id = transactions[i].txn_id
              /\ Cardinality({k \in 1..Len(reconciled) :
                     reconciled[k].txn_id = transactions[i].txn_id}) = 1

\* C1 witness: a finished run with a null customer_id and a customer_id
\* shared by two transactions.
C1_Witness ==
    /\ pc = "done"
    /\ \E i \in 1..Len(transactions) : transactions[i].customer_id = None
    /\ \E i, j \in 1..Len(transactions) :
          /\ i # j
          /\ transactions[i].customer_id # None
          /\ transactions[i].customer_id = transactions[j].customer_id

\* C2: match_status is MATCHED iff the customer_id is non-null and the
\* customer_id of some master record, and UNMATCHED otherwise.
C2_MatchedIffInMaster ==
    pc = "done" =>
        \A k \in 1..Len(reconciled) :
            LET known == /\ reconciled[k].customer_id # None
                         /\ \E m \in 1..Len(master) :
                               master[m].customer_id = reconciled[k].customer_id
            IN  /\ reconciled[k].match_status \in {"MATCHED", "UNMATCHED"}
                /\ reconciled[k].match_status = "MATCHED" <=> known
                /\ reconciled[k].match_status = "UNMATCHED" <=> ~known

\* C2 witness: a finished run with a matched row and a row whose
\* customer_id is null.
C2_Witness ==
    /\ pc = "done"
    /\ \E k \in 1..Len(reconciled) : reconciled[k].match_status = "MATCHED"
    /\ \E k \in 1..Len(reconciled) :
          /\ reconciled[k].customer_id = None
          /\ reconciled[k].match_status = "UNMATCHED"

\* C3: a transaction has one R004 exception if quantity * price < 0 and
\* none otherwise (zero, positive or missing amount); every R004 exception
\* names a transaction; the amount is missing iff a factor is.
C3_R004IffNegative ==
    RulesEvaluated =>
        /\ Len(transactions) = Len(raw)
        /\ \A i \in 1..Len(transactions) :
              /\ transactions[i].amount.nan <=> RawMissing(i)
              /\ ExcCount("R004", transactions[i].txn_id) =
                    IF RawNegative(i) THEN 1 ELSE 0
        /\ \A e \in 1..Len(exceptions) :
              exceptions[e].rule_id = "R004" => exceptions[e].txn_id \in TxnIds

\* C3 witness: a finished run with a negative amount on an unmatched
\* transaction, a zero amount and a missing amount.
C3_Witness ==
    /\ pc = "done"
    /\ \E i \in 1..Len(raw) :
          /\ RawNegative(i)
          /\ transactions[i].customer_id = None
          /\ ExcCount("R004", transactions[i].txn_id) = 1
    /\ \E i \in 1..Len(raw) :
          /\ ~RawMissing(i)
          /\ raw[i].quantity.v * raw[i].price.v = 0
    /\ \E i \in 1..Len(raw) : RawMissing(i)

\* C4: a reconciled transaction has one R005 exception if it is UNMATCHED
\* and none otherwise; every R005 exception names a transaction; the R004
\* exception of a transaction is there whether or not it has an R005 one.
C4_R005IffUnmatched ==
    pc = "done" =>
        /\ \A k \in 1..Len(reconciled) :
              /\ ExcCount("R005", reconciled[k].txn_id) =
                    IF reconciled[k].match_status = "UNMATCHED" THEN 1 ELSE 0
              /\ ExcCount("R004", reconciled[k].txn_id) =
                    IF LtZero(reconciled[k].amount) THEN 1 ELSE 0
        /\ \A e \in 1..Len(exceptions) :
              exceptions[e].rule_id = "R005" =>
                 \E k \in 1..Len(reconciled) :
                    reconciled[k].txn_id = exceptions[e].txn_id

\* C4 witness: a finished run where one transaction has both an R004 and an
\* R005 exception and another is matched.
C4_Witness ==
    /\ pc = "done"
    /\ \E k \in 1..Len(reconciled) :
          /\ reconciled[k].match_status = "UNMATCHED"
          /\ LtZero(reconciled[k].amount)
          /\ ExcCount("R004", reconciled[k].txn_id) = 1
          /\ ExcCount("R005", reconciled[k].txn_id) = 1
    /\ \E k \in 1..Len(reconciled) : reconciled[k].match_status = "MATCHED"

\* C5: the exception list is ordered by rule (R003, R004, R005) and, within
\* a rule, by the input rows of the transactions.
C5_OrderedByRuleThenRow ==
    RulesEvaluated =>
        \A a, b \in 1..Len(exceptions) :
            a < b =>
               /\ RuleRank(exceptions[a].rule_id) > 0
               /\ RuleRank(exceptions[a].rule_id) <=
                     RuleRank(exceptions[b].rule_id)
               /\ exceptions[a].rule_id = exceptions[b].rule_id =>
                     RowOf(exceptions[a].txn_id) < RowOf(exceptions[b].txn_id)

\* C5 witness: a finished run with two R004 and two R005 exceptions.
C5_Witness ==
    /\ pc = "done"
    /\ Cardinality({e \in 1..Len(exceptions) :
           exceptions[e].rule_id = "R004"}) >= 2
    /\ Cardinality({e \in 1..Len(exceptions) :
           exceptions[e].rule_id = "R005"}) >= 2

\* the decimal text of the zero-based position of row i
OrdinalText ==
    <<"0", "1", "2", "3", "4", "5", "6", "7", "8", "9">>

\* C6: txn_id is the invoice, a hyphen and the zero-based row position; the
\* txn_ids are pairwise distinct, and the duplicate diagnostic is empty.
C6_TxnIdDistinct ==
    Normalized =>
        /\ Len(transactions) = Len(raw)
        /\ \A i \in 1..Len(transactions) :
              transactions[i].txn_id =
                 raw[i].invoice \o "-" \o OrdinalText[i]
        /\ \A i, j \in 1..Len(transactions) :
              i # j => transactions[i].txn_id # transactions[j].txn_id
        /\ pc \in {"step5", "step6", "done"} => dup_txn = <<>>

\* C6 witness: a finished run where two rows share the invoice.
C6_Witness ==
    /\ pc = "done"
    /\ \E i, j \in 1..Len(raw) : i # j /\ raw[i].invoice = raw[j].invoice

\* C7: the master set holds one record per distinct non-null customer_id of
\* the transactions and nothing else, in first-seen order, named "cust_" +
\* customer_id with status ACTIVE.
C7_MasterDistinctFirstSeen ==
    MasterDerived =>
        /\ {master[m].customer_id : m \in 1..Len(master)} =
              {transactions[i].customer_id : i \in 1..Len(transactions)}
                 \ {None}
        /\ \A a, b \in 1..Len(master) :
              /\ a # b => master[a].customer_id # master[b].customer_id
              /\ a < b => FirstSeen(master[a].customer_id) <
                             FirstSeen(master[b].customer_id)
        /\ \A m \in 1..Len(master) :
              /\ master[m].customer_name = "cust_" \o master[m].customer_id
              /\ master[m].account_status = "ACTIVE"
        /\ pc \in {"step5", "step6", "done"} => dup_master = <<>>

\* C7 witness: a finished run with two master records, the first of them
\* for a customer_id that two transactions share.
C7_Witness ==
    /\ pc = "done"
    /\ Len(master) = 2
    /\ \E i, j \in 1..Len(transactions) :
          /\ i # j
          /\ transactions[i].customer_id = master[1].customer_id
          /\ transactions[j].customer_id = master[1].customer_id

\* C8: no exception has rule_id R003, and a transaction is UNMATCHED, and
\* has an R005 exception, exactly when its customer_id is null.
C8_R003NeverFires ==
    /\ RulesEvaluated =>
          \A e \in 1..Len(exceptions) : exceptions[e].rule_id # "R003"
    /\ pc = "done" =>
          \A k \in 1..Len(reconciled) :
             /\ reconciled[k].match_status = "UNMATCHED" <=>
                   reconciled[k].customer_id = None
             /\ ExcCount("R005", reconciled[k].txn_id) = 1 <=>
                   reconciled[k].customer_id = None

\* C8 witness: a finished run with a null customer_id and a customer_id
\* that two transactions share.
C8_Witness ==
    /\ pc = "done"
    /\ \E k \in 1..Len(reconciled) :
          /\ reconciled[k].customer_id = None
          /\ ExcCount("R005", reconciled[k].txn_id) = 1
    /\ \E i, j \in 1..Len(reconciled) :
          /\ i # j
          /\ reconciled[i].customer_id # None
          /\ reconciled[i].customer_id = reconciled[j].customer_id

\* C9: a customer identifier that is no integer does not end the run: every
\* row still becomes a transaction.
C9_NoCrashOnMalformedCustomer ==
    (\E i \in 1..Len(raw) : raw[i].customer.kind = "text") =>
        /\ pc # "crashed"
        /\ pc # "load" => Len(transactions) = Len(raw)

\* the rule definition with a rule_id
RuleOf(rule) ==
    CHOOSE r \in {rules_df[n] : n \in 1..Len(rules_df)} : r.rule_id = rule

\* C10 as stated: every exception carries the description and the severity
\* of the rule definition with its rule_id.
C10_DescriptionAndSeverityOfRule ==
    \A e \in 1..Len(exceptions) :
        /\ \E n \in 1..Len(rules_df) :
              rules_df[n].rule_id = exceptions[e].rule_id
        /\ exceptions[e].description = RuleOf(exceptions[e].rule_id).description
        /\ exceptions[e].severity = RuleOf(exceptions[e].rule_id).severity

\* C10 amended: every exception carries the severity of the rule definition
\* with its rule_id; an R003 or R005 exception carries its description too,
\* and an R004 exception carries it followed by " (return or cancellation)".
C10_SeverityOfRule ==
    \A e \in 1..Len(exceptions) :
        /\ \E n \in 1..Len(rules_df) :
              rules_df[n].rule_id = exceptions[e].rule_id
        /\ exceptions[e].severity = RuleOf(exceptions[e].rule_id).severity
        /\ exceptions[e].description =
              IF exceptions[e].rule_id = "R004"
              THEN RuleOf("R004").description \o " (return or cancellation)"
              ELSE RuleOf(exceptions[e].rule_id).description

\* C10 witness: a finished run with an R004 and an R005 exception.
C10_Witness ==
    /\ pc = "done"
    /\ \E e \in 1..Len(exceptions) : exceptions[e].rule_id = "R004"
    /\ \E e \in 1..Len(exceptions) : exceptions[e].rule_id = "R005"
=============================================================================
